---- MODULE Spec2Model ----
(***************************************************************************)
(* A model of the clustering engine of the scholarship application:        *)
(* class ScholarshipClustering of src/utils/clustering.py.                 *)
(*                                                                         *)
(* One engine instance is modelled.  Its state is the dictionary           *)
(* self.label_encoders; every public method is one action, and the         *)
(* variable `last` records the arguments and the return value of the most  *)
(* recent call (what the caller observes).  The DataFrame is passed by      *)
(* reference: `caller_df` is the caller's table as the call left it.        *)
(* The specification SpecSessions has one engine per session instead:       *)
(* `engines` maps a session to the label_encoders of its engine, `pending`  *)
(* to the call the session is inside, and `alone` keeps, for comparison,    *)
(* the label_encoders the session's engine would hold had no other session  *)
(* ever run.                                                                *)
(* `pca` is self.pca: <<>> (None) or the PCA object last assigned to it.    *)
(* `applications` is the list self.applications of one ApplicationTracker   *)
(* (src/utils/application_tracker.py), a sequence of application records.   *)
(*                                                                         *)
(* Python values are represented as follows:                                *)
(*   - an Optional value is a sequence of length 0 (None) or 1;             *)
(*   - a DataFrame is a sequence of records (rows, in index order);         *)
(*   - a dict is a function: label_encoders is <<>> (the empty dict) or     *)
(*     ("category" :> classes_), where classes_ is the fitted, sorted       *)
(*     sequence of class strings of the sklearn LabelEncoder;               *)
(*   - a raised exception is its message str(e), a non-empty string, in a   *)
(*     field `exc` or `raised`;                                             *)
(*   - a feature matrix is a sequence of columns (each a sequence with one  *)
(*     entry per row).  A standardized entry (x - mean)/std is kept exactly *)
(*     as [num |-> n*x - sum, var |-> n*sumsq - sum^2], standing for        *)
(*     num / sqrt(var).                                                     *)
(* self.scaler is refitted from scratch by every fit_transform call and     *)
(* carries nothing from one call to the next, so StandardScaler is a pure   *)
(* operator here; the library routines KMeans, AgglomerativeClustering and  *)
(* DBSCAN are modelled by the set of label vectors their contract allows.   *)
(***************************************************************************)
EXTENDS Integers, Sequences, FiniteSets, TLC

VARIABLES label_encoders, last, caller_df, engines, alone, pending, pca,
          applications

vars == <<label_encoders, last, caller_df, engines, alone, pending, pca,
          applications>>

\* The engines of the sessions of the specification SpecSessions.
sessionVars == <<engines, alone, pending>>

\* The state no clustering call touches: self.pca, which only
\* visualize_clusters_2d assigns, and the list of the ApplicationTracker.
restVars == <<pca, applications>>

(* ------------------------------ bounds --------------------------------- *)

\* Largest number of rows of an input table.
MaxRecords == 4

\* Largest cluster_count passed by a caller (0 is the non-positive case).
MaxK == 5

(* ------------------------------ inputs --------------------------------- *)

\* Category strings, listed in Python's sort order.
CategoryOrder == <<"Arts", "STEM">>

\* Demographic labels, listed in Python's sort order: the pool of
\* scholarship_data.py and, from the records of data_integration.py,
\* "Graduate students" and "Native American".
DemographicOrder ==
    <<"First-generation college student", "Graduate students",
      "International student", "LGBTQ+", "Low-income background",
      "Native American", "Rural/Small town background",
      "Student with disability", "Underrepresented minority", "Veteran",
      "Women in STEM">>

Range(s) == {s[i] : i \in DOMAIN s}

\* The current time (pd.Timestamp.now()): a day number; not at midnight.
Now == [day |-> 0, midnight |-> FALSE]

\* A deadline is a parseable date (its day number), missing (None) or an
\* unparsable string.
Date(d) == [kind |-> "date", day |-> d]

Scholarship(amount, category) ==
    [amount |-> amount, gpa_requirement |-> 30, category |-> category,
     target_demographics |-> {"Women in STEM"}, deadline |-> Date(90)]

\* Scholarship records (gpa_requirement in tenths of a grade point): two
\* amounts, two categories.
RecordUniverse ==
    {Scholarship(1000, "Arts"), Scholarship(5000, "Arts"), Scholarship(5000, "STEM")}

RECURSIVE SeqsUpTo(_, _)
SeqsUpTo(S, n) ==
    IF n = 0 THEN {<<>>}
    ELSE LET shorter == SeqsUpTo(S, n - 1)
         IN  shorter \cup {Append(s, x) : s \in {t \in shorter : Len(t) = n - 1}, x \in S}

\* The record tables a caller may pass (the empty table included).
Tables == SeqsUpTo(RecordUniverse, MaxRecords)

Methods == {"kmeans", "hierarchical", "dbscan", "spectral"}

ClusterCounts == 0 .. MaxK

FeatureSelections == SUBSET {"Amount", "Category", "Demographics"}

\* The `features` argument of cluster_scholarships: None or a list.
FeatureArgs == {<<>>} \cup {<<f>> : f \in FeatureSelections}

(* ------------------------- sklearn LabelEncoder ------------------------ *)

IndexOf(s, x) == CHOOSE i \in DOMAIN s : s[i] = x

\* np.unique of the column: the distinct values in sorted order.
SortedUnique(order, y) == SelectSeq(order, LAMBDA c : c \in Range(y))

\* LabelEncoder.fit_transform(y): classes_ and the codes of y.
LabelEncoder_fit_transform(y) ==
    LET classes == SortedUnique(CategoryOrder, y)
    IN  [classes |-> classes,
         codes |-> [i \in DOMAIN y |-> IndexOf(classes, y[i]) - 1]]

\* LabelEncoder.transform(y) on an encoder fitted to `classes`.
LabelEncoder_transform(classes, y) ==
    IF \E i \in DOMAIN y : y[i] \notin Range(classes)
    THEN [exc |-> "y contains previously unseen labels", codes |-> <<>>]
    ELSE [exc |-> "", codes |-> [i \in DOMAIN y |-> IndexOf(classes, y[i]) - 1]]

(* ------------------------- sklearn StandardScaler ---------------------- *)

RECURSIVE SumSeq(_)
SumSeq(s) == IF s = <<>> THEN 0 ELSE Head(s) + SumSeq(Tail(s))

\* One column standardized: (x - mean) / std, std replaced by 1 when 0.
ScaleColumn(col) ==
    LET n == Len(col)
        sum == SumSeq(col)
        sumsq == SumSeq([i \in DOMAIN col |-> col[i] * col[i]])
        v == n * sumsq - sum * sum
    IN  [i \in DOMAIN col |-> [num |-> n * col[i] - sum, var |-> IF v = 0 THEN 1 ELSE v]]

\* StandardScaler.fit_transform(X): at least one sample is required.
StandardScaler_fit_transform(columns, n) ==
    IF n = 0
    THEN [exc |-> "Found array with 0 sample(s)", matrix |-> <<>>]
    ELSE [exc |-> "", matrix |-> [c \in DOMAIN columns |-> ScaleColumn(columns[c])]]

(* --------------------------- _prepare_features ------------------------- *)

Column(df, field) == [i \in DOMAIN df |-> df[i][field]]

\* pd.to_datetime(df['deadline']): raises when any entry cannot be parsed;
\* then (deadline - now).dt.days, NaT filled with 365.
DaysUntil(deadline) ==
    IF deadline.kind = "date"
    THEN deadline.day - Now.day - (IF Now.midnight THEN 0 ELSE 1)
    ELSE 365

\* A Deadline step that gives each unparsable entry the default 365.
DeadlineColumns_PerRecord(df) == << [i \in DOMAIN df |-> DaysUntil(df[i].deadline)] >>

DeadlineColumns(df) ==
    IF \E i \in DOMAIN df : df[i].deadline.kind = "bad"
    THEN <<>>
    ELSE << [i \in DOMAIN df |-> DaysUntil(df[i].deadline)] >>

\* Line 106, `sorted(list(all_demographics))[:10]`: the first 10 labels of
\* the batch in sort order.
CommonDemographics(df) ==
    LET all_demographics == UNION {df[i].target_demographics : i \in DOMAIN df}
        sorted == SelectSeq(DemographicOrder, LAMBDA d : d \in all_demographics)
    IN  SubSeq(sorted, 1, IF Len(sorted) < 10 THEN Len(sorted) ELSE 10)

\* The Demographics columns: the diversity count, then one binary column for
\* each of the first 10 labels of the sorted list of the batch's labels.
DemographicColumns(df) ==
    LET common_demographics == CommonDemographics(df)
    IN  << [i \in DOMAIN df |-> Cardinality(df[i].target_demographics)] >>
        \o [j \in DOMAIN common_demographics |->
               [i \in DOMAIN df |->
                   IF common_demographics[j] \in df[i].target_demographics THEN 1 ELSE 0]]

\* The Category step with an encoder that is fitted again by every run.
CategoryStep_Refit(encoders, df) ==
    LET ft == LabelEncoder_fit_transform(Column(df, "category"))
    IN  [exc |-> "", encoders |-> ("category" :> ft.classes), columns |-> <<ft.codes>>]

\* The Category step: the encoder is created and fitted on first use,
\* and only applied afterwards.
CategoryStep(encoders, df) ==
    IF "category" \notin DOMAIN encoders
    THEN LET ft == LabelEncoder_fit_transform(Column(df, "category"))
         IN  [exc |-> "", encoders |-> ("category" :> ft.classes), columns |-> <<ft.codes>>]
    ELSE LET t == LabelEncoder_transform(encoders["category"], Column(df, "category"))
         IN  [exc |-> t.exc, encoders |-> encoders,
              columns |-> IF t.exc = "" THEN <<t.codes>> ELSE <<>>]

\* The Category feature with an encoder that is fitted whether or not
\* Category is selected.
CategoryFeature_Eager(encoders, df, features) ==
    LET step == CategoryStep(encoders, df)
    IN  IF "Category" \in features
        THEN step
        ELSE [exc |-> "", encoders |-> step.encoders, columns |-> <<>>]

\* The Category feature with the test for the selection left out.
CategoryFeature_Always(encoders, df, features) == CategoryStep(encoders, df)

\* Line 87, `if "Category" in features`: the Category step runs only when
\* Category is selected.
CategoryFeature(encoders, df, features) ==
    IF "Category" \in features
    THEN CategoryStep(encoders, df)
    ELSE [exc |-> "", encoders |-> encoders, columns |-> <<>>]

\* _prepare_features(df, features) in an engine whose label_encoders is
\* `encoders`: the exception raised (if any), the new label_encoders and the
\* Optional feature matrix.
_prepare_features(encoders, df, features) ==
    LET amount == IF "Amount" \in features THEN <<Column(df, "amount")>> ELSE <<>>
        gpa == IF "GPA Requirement" \in features
               THEN <<Column(df, "gpa_requirement")>> ELSE <<>>
        cat == CategoryFeature(encoders, df, features)
        demo == IF "Demographics" \in features THEN DemographicColumns(df) ELSE <<>>
        dl == IF "Deadline" \in features THEN DeadlineColumns(df) ELSE <<>>
        feature_columns == amount \o gpa \o cat.columns \o demo \o dl
    IN  IF cat.exc # ""
        THEN [exc |-> cat.exc, encoders |-> cat.encoders, matrix |-> <<>>]
        ELSE IF feature_columns = <<>>
        THEN [exc |-> "", encoders |-> cat.encoders, matrix |-> <<>>]
        ELSE LET sc == StandardScaler_fit_transform(feature_columns, Len(df))
             IN  [exc |-> sc.exc, encoders |-> cat.encoders,
                  matrix |-> IF sc.exc = "" THEN <<sc.matrix>> ELSE <<>>]

(* ------------------------ clustering algorithms ------------------------ *)

NumRows(matrix) == Len(matrix[1])

Row(matrix, i) == [c \in DOMAIN matrix |-> matrix[c][i]]

DistinctRows(matrix) == {Row(matrix, i) : i \in 1 .. NumRows(matrix)}

Min(a, b) == IF a < b THEN a ELSE b

\* sklearn.metrics.silhouette_score(X, labels) accepts 2 .. n_samples - 1
\* distinct labels and raises otherwise; the value of the score is not modelled.
silhouette_score(n_samples, labels) ==
    LET n_labels == Cardinality(Range(labels))
    IN  IF n_labels < 2 \/ n_labels > n_samples - 1
        THEN "Number of labels is " \o ToString(n_labels)
                 \o ". Valid values are 2 to n_samples - 1 (inclusive)"
        ELSE ""

\* The value silhouette_score(X[rows], labels[rows]) returns, kept as the
\* application itself: the rows of the feature matrix it was computed over
\* and their labels.
ScoreOf(rows, labels) ==
    [literal |-> FALSE, rows |-> rows, labels |-> [i \in rows |-> labels[i]]]

\* The literal 0 the code stores when it computes no silhouette score.
ScoreZero == [literal |-> TRUE, rows |-> {}, labels |-> <<>>]

\* KMeans with its labels numbered from 1 instead of 0.
KMeansLabelings_OneBased(matrix, k) ==
    LET rows == DistinctRows(matrix)
        m == Min(k, Cardinality(rows))
        assignments == {a \in [rows -> 1 .. k] : Cardinality({a[r] : r \in rows}) = m}
    IN  {[i \in 1 .. NumRows(matrix) |-> a[Row(matrix, i)]] : a \in assignments}

\* KMeans(n_clusters=k, random_state=42, n_init=10).fit_predict(X), for
\* 1 <= k <= n_samples: a label in 0 .. k-1 for every row, equal rows get
\* the label of their common nearest centre, and min(k, number of distinct
\* rows) clusters are non-empty.
KMeansLabelings(matrix, k) ==
    LET rows == DistinctRows(matrix)
        m == Min(k, Cardinality(rows))
        assignments == {a \in [rows -> 0 .. k - 1] : Cardinality({a[r] : r \in rows}) = m}
    IN  {[i \in 1 .. NumRows(matrix) |-> a[Row(matrix, i)]] : a \in assignments}

\* AgglomerativeClustering(n_clusters=k).fit_predict(X), for
\* 1 <= k <= n_samples (Ward linkage): exactly k clusters; merges at distance
\* 0 come first, so equal rows share a cluster when k is at most the number
\* of distinct rows, and no cluster mixes distinct rows otherwise.
HierarchicalLabelings(matrix, k) ==
    LET n == NumRows(matrix)
        d == Cardinality(DistinctRows(matrix))
    IN  {l \in [1 .. n -> 0 .. k - 1] :
            /\ Cardinality(Range(l)) = k
            /\ \A i, j \in 1 .. n :
                  IF k <= d
                  THEN Row(matrix, i) = Row(matrix, j) => l[i] = l[j]
                  ELSE l[i] = l[j] => Row(matrix, i) = Row(matrix, j)}

\* The min_samples argument of line 173 with the quotient rounded up.
MinSamples_Ceil(n) == IF (n + 19) \div 20 > 2 THEN (n + 19) \div 20 ELSE 2

\* Line 173, `max(2, len(feature_matrix) // 20)`.
MinSamples(n) == IF n \div 20 > 2 THEN n \div 20 ELSE 2

\* DBSCAN(eps, min_samples=max(2, n // 20)).fit_predict(X) for n < 40, where
\* min_samples = 2 and eps >= 0.1: noise rows get -1, clusters are numbered
\* 0, 1, ... in the order of their first row, every cluster has at least
\* min_samples rows, and equal rows (distance 0) are in one cluster.
DBSCANLabelings(matrix) ==
    LET n == NumRows(matrix)
    IN  {l \in [1 .. n -> -1 .. (n \div 2) - 1] :
            /\ \A i \in 1 .. n : l[i] >= 0 =>
                  /\ Cardinality({j \in 1 .. n : l[j] = l[i]}) >= MinSamples(n)
                  /\ \A c \in 0 .. l[i] - 1 : \E j \in 1 .. i - 1 : l[j] = c
            /\ \A i, j \in 1 .. n :
                  (i # j /\ Row(matrix, i) = Row(matrix, j)) => (l[i] = l[j] /\ l[i] >= 0)}

Fitted(labels, info) == [exc |-> "", labels |-> labels, info |-> info]

Failed(exc) == [exc |-> exc, labels |-> <<>>, info |-> <<>>]

\* _kmeans_clustering(feature_matrix, n_clusters): every (labels, info) the
\* call may return, or the exception it raises.
_kmeans_clustering(matrix, k) ==
    LET n == NumRows(matrix)
    IN  IF k < 1
        THEN {Failed("The 'n_clusters' parameter of KMeans must be an int in the range [1, inf)")}
        ELSE IF n < k
        THEN {Failed("n_samples should be >= n_clusters")}
        ELSE {LET s == silhouette_score(n, l)
              IN  IF s # "" THEN Failed(s)
                  ELSE Fitted(l, [silhouette_score |-> ScoreOf(DOMAIN l, l),
                                  n_clusters |-> k]) :
                    l \in KMeansLabelings(matrix, k)}

\* _hierarchical_clustering(feature_matrix, n_clusters).
_hierarchical_clustering(matrix, k) ==
    LET n == NumRows(matrix)
    IN  IF k < 1
        THEN {Failed("The 'n_clusters' parameter of AgglomerativeClustering must be an int in the range [1, inf) or None")}
        ELSE IF n < 2
        THEN {Failed("Found array with 1 sample(s) while a minimum of 2 is required by AgglomerativeClustering")}
        ELSE IF n < k
        THEN {Failed("Cannot extract more clusters than samples")}
        ELSE {LET s == silhouette_score(n, l)
              IN  IF s # "" THEN Failed(s)
                  ELSE Fitted(l, [silhouette_score |-> ScoreOf(DOMAIN l, l),
                                  n_clusters |-> k, linkage |-> "ward"]) :
                    l \in HierarchicalLabelings(matrix, k)}

\* Line 178 without its correction for the noise label.
CountClusters_WithNoise(unique_labels) == Cardinality(unique_labels)

\* Line 178: the number of distinct labels, the noise label -1 not counted.
CountClusters(unique_labels) ==
    Cardinality(unique_labels) - (IF -1 \in unique_labels THEN 1 ELSE 0)

\* A mask that keeps the noise rows.
NonNoiseMask_All(labels) == DOMAIN labels

\* Line 183: non_noise_mask = cluster_labels != -1, as the set of the rows
\* it selects.
NonNoiseMask(labels) == {i \in DOMAIN labels : labels[i] # -1}

\* _dbscan_clustering(feature_matrix): the silhouette score is computed on
\* the rows of the mask when there are at least two clusters, and is the
\* literal 0 otherwise.
_dbscan_clustering(matrix) ==
    {LET unique_labels == Range(l)
         n_clusters == CountClusters(unique_labels)
         n_noise == Cardinality({i \in DOMAIN l : l[i] = -1})
         mask == NonNoiseMask(l)
         scored == n_clusters > 1 /\ n_noise < Len(l) /\ Cardinality(mask) > 1
         s == IF scored
              THEN silhouette_score(Cardinality(mask), [i \in mask |-> l[i]])
              ELSE ""
     IN  IF s # "" THEN Failed(s)
         ELSE Fitted(l, [silhouette_score |-> IF scored THEN ScoreOf(mask, l)
                                               ELSE ScoreZero,
                         n_clusters |-> n_clusters,
                         n_noise_points |-> n_noise]) :
       l \in DBSCANLabelings(matrix)}

(* -------------------------- cluster_scholarships ----------------------- *)

\* What a call gives its caller: a raised exception, or the returned pair
\* (table, info) of Optionals; diag is the message passed to st.error and
\* steps lists the private methods the call entered.
Returned(table, info, diag, steps) ==
    [raised |-> "", table |-> table, info |-> info, diag |-> diag, steps |-> steps]

Raised(exc, steps) ==
    [raised |-> exc, table |-> <<>>, info |-> <<>>, diag |-> "", steps |-> steps]

\* An outcome of a call: what it gives its caller, the label_encoders of the
\* engine and the caller's table (the argument object) after the call.
Outcome(ret, encoders, df) == [ret |-> ret, encoders |-> encoders, df |-> df]

ClusteringMethod(method) ==
    CASE method = "kmeans" -> "_kmeans_clustering"
      [] method = "hierarchical" -> "_hierarchical_clustering"
      [] method = "dbscan" -> "_dbscan_clustering"
      [] OTHER -> ""

\* An except clause that re-raises.
ExceptClause_Reraise(ret) == ret

\* The except clause of cluster_scholarships: any exception of the try block
\* is reported with st.error and turned into (None, None).
ExceptClause(ret) ==
    IF ret.raised # ""
    THEN Returned(<<>>, <<>>, "Clustering failed: " \o ret.raised, ret.steps)
    ELSE ret

\* Line 46 without its `is None` test: None has no attribute shape.
MatrixCheck_NoNoneTest(matrix) ==
    IF matrix = <<>>
    THEN "'NoneType' object has no attribute 'shape'"
    ELSE IF Len(matrix[1]) = 0 THEN "No valid features for clustering" ELSE ""

\* Line 46: `feature_matrix is None or feature_matrix.shape[1] == 0`
\* raises ValueError("No valid features for clustering").
MatrixCheck(matrix) ==
    IF matrix = <<>> \/ Len(matrix[1]) = 0
    THEN "No valid features for clustering"
    ELSE ""

\* The cluster column assigned to the caller's table itself.
CopyThenLabel_InPlace(df, labels) ==
    LET labeled == [i \in DOMAIN df |-> df[i] @@ [cluster |-> labels[i]]]
    IN  [scholarships_df |-> labeled, clustered_df |-> labeled]

\* Lines 60-61: clustered_df = scholarships_df.copy();
\* clustered_df['cluster'] = cluster_labels.  The two tables afterwards.
CopyThenLabel(df, labels) ==
    [scholarships_df |-> df,
     clustered_df |-> [i \in DOMAIN df |-> df[i] @@ [cluster |-> labels[i]]]]

\* The try block of cluster_scholarships from line 46 on, given what
\* _prepare_features returned or raised on line 44.
AfterPrepare(pf, df, method, k, features) ==
    LET p == <<"_prepare_features">>
    IN  IF pf.exc # ""
        THEN {Outcome(Raised(pf.exc, p), pf.encoders, df)}
        ELSE IF MatrixCheck(pf.matrix) # ""
        THEN {Outcome(Raised(MatrixCheck(pf.matrix), p), pf.encoders, df)}
        ELSE IF ClusteringMethod(method) = ""
        THEN {Outcome(Raised("Unsupported clustering method: " \o method, p),
                      pf.encoders, df)}
        ELSE LET fits == CASE method = "kmeans" -> _kmeans_clustering(pf.matrix[1], k)
                           [] method = "hierarchical" ->
                                 _hierarchical_clustering(pf.matrix[1], k)
                           [] OTHER -> _dbscan_clustering(pf.matrix[1])
                 steps == Append(p, ClusteringMethod(method))
             IN  {IF fit.exc # ""
                  THEN Outcome(Raised(fit.exc, steps), pf.encoders, df)
                  ELSE LET copied == CopyThenLabel(df, fit.labels)
                       IN  Outcome(
                             Returned(
                               << copied.clustered_df >>,
                               << fit.info @@ [method |-> method,
                                               features_used |-> features,
                                               n_scholarships |-> Len(df)] >>,
                               "", steps),
                             pf.encoders, copied.scholarships_df) :
                    fit \in fits}

\* The try block of cluster_scholarships, after `features` got its default.
TryBlock(encoders, df, method, k, features) ==
    AfterPrepare(_prepare_features(encoders, df, features), df, method, k, features)

DefaultFeatures == {"Amount", "Category", "Demographics"}

\* cluster_scholarships without the test of lines 36-37 for an empty table.
cluster_scholarships_NoEmptyCheck(encoders, df, method, k, features) ==
    LET f == IF features = <<>> THEN {"Amount", "Category", "Demographics"} ELSE features[1]
    IN  {Outcome(ExceptClause(o.ret), o.encoders, o.df) :
            o \in TryBlock(encoders, df, method, k, f)}

\* cluster_scholarships(scholarships_df, method, n_clusters, features) in an
\* engine whose label_encoders is `encoders`: the possible outcomes.
cluster_scholarships(encoders, df, method, k, features) ==
    IF df = <<>>
    THEN {Outcome(Returned(<<>>, <<>>, "", <<>>), encoders, df)}
    ELSE LET f == IF features = <<>> THEN DefaultFeatures ELSE features[1]
         IN  {Outcome(ExceptClause(o.ret), o.encoders, o.df) :
                 o \in TryBlock(encoders, df, method, k, f)}

(* ----------------------- recommend_optimal_clusters -------------------- *)

\* The score tables the loop can fill for the candidates `scored`.  A
\* silhouette score is a real number in [-1, 1]; the model keeps the order
\* of the scores of a table and nothing else: each score is replaced by its
\* rank among the distinct scores of the table (1 for the lowest, equal
\* scores share a rank), and every order of the candidates is possible.
ScoreTables(scored) ==
    {scores \in [scored -> 1 .. Cardinality(scored)] :
        \A rank \in 1 .. Cardinality(scored) :
            (\E c \in scored : scores[c] >= rank)
                => (\E c \in scored : scores[c] = rank)}

\* The candidate counts whose KMeans run and scoring do not raise (the
\* others are skipped by the loop's except clause).
ScoredCandidates_All(matrix, max_clusters) == 2 .. max_clusters

ScoredCandidates(matrix, max_clusters) ==
    {c \in 2 .. max_clusters :
        \E fit \in _kmeans_clustering(matrix, c) : fit.exc = ""}

\* max(scores.keys(), key=lambda k: scores[k]): the first key, in insertion
\* (ascending) order, whose score is the largest.
ArgMaxFirst(scores) ==
    CHOOSE c \in DOMAIN scores :
        /\ \A o \in DOMAIN scores : scores[o] <= scores[c]
        /\ \A o \in DOMAIN scores : scores[o] = scores[c] => c <= o

Recommendation(recommended, scores, method) ==
    [raised |-> "",
     result |-> <<[recommended_clusters |-> recommended, scores |-> scores,
                   method |-> method]>>]

DefaultRecommendation == Recommendation(2, <<>>, "default")

\* The test of line 271 with 3 for 4.
TooFewRecords_Three(df) == Len(df) < 3

\* Line 271: `len(scholarships_df) < 4`.
TooFewRecords(df) == Len(df) < 4

\* recommend_optimal_clusters(scholarships_df, features) in an engine whose
\* label_encoders is `encoders`: the possible outcomes.  _prepare_features is
\* called outside any try block.
recommend_optimal_clusters(encoders, df, features) ==
    IF TooFewRecords(df)
    THEN {Outcome(DefaultRecommendation, encoders, df)}
    ELSE LET pf == _prepare_features(encoders, df, features)
         IN  IF pf.exc # ""
             THEN {Outcome([raised |-> pf.exc, result |-> <<>>], pf.encoders, df)}
             ELSE IF pf.matrix = <<>>
             THEN {Outcome(DefaultRecommendation, pf.encoders, df)}
             ELSE LET max_clusters == Min(10, Len(df) \div 2)
                      scored == ScoredCandidates(pf.matrix[1], max_clusters)
                  IN  IF scored = {}
                      THEN {Outcome(DefaultRecommendation, pf.encoders, df)}
                      ELSE {Outcome(Recommendation(ArgMaxFirst(scores), scores,
                                                   "silhouette_analysis"),
                                    pf.encoders, df) :
                              scores \in ScoreTables(scored)}

(* ------------------------------- actions ------------------------------- *)

\* The sessions of SpecSessions: each run of the page script constructs an
\* engine of its own.
Sessions == {"s1", "s2"}

Call(op, df, method, k, features, ret) ==
    [op |-> op, df |-> df, method |-> method, n_clusters |-> k,
     features |-> features, ret |-> ret]

\* No call is in progress and no result is waiting to be rendered.
Idle == Call("idle", <<>>, "", 0, <<>>, Returned(<<>>, <<>>, "", <<>>))

\* The page calls cluster_scholarships and gets its result.
Cluster ==
    /\ last = Idle
    /\ \E df \in Tables, method \in Methods, k \in ClusterCounts, features \in FeatureArgs :
        \E o \in cluster_scholarships(label_encoders, df, method, k, features) :
            /\ label_encoders' = o.encoders
            /\ caller_df' = o.df
            /\ UNCHANGED <<sessionVars, restVars>>
            /\ last' = Call("cluster", df, method, k, features, o.ret)

\* The page calls recommend_optimal_clusters and gets its result.
Recommend ==
    /\ last = Idle
    /\ \E df \in Tables, features \in FeatureSelections :
        \E o \in recommend_optimal_clusters(label_encoders, df, features) :
            /\ label_encoders' = o.encoders
            /\ caller_df' = o.df
            /\ UNCHANGED <<sessionVars, restVars>>
            /\ last' = Call("recommend", df, "", 0, <<features>>, o.ret)

\* The page has rendered the result (or the exception has ended the script
\* run); the engine is ready for the next call.
Render ==
    /\ last # Idle
    /\ last' = Idle
    /\ caller_df' = <<>>
    /\ UNCHANGED <<label_encoders, sessionVars, restVars>>

Init ==
    /\ label_encoders = <<>>
    /\ last = Idle
    /\ caller_df = <<>>
    /\ engines = [s \in Sessions |-> <<>>]
    /\ alone = [s \in Sessions |-> <<>>]
    /\ pending = [s \in Sessions |-> <<>>]
    /\ pca = <<>>
    /\ applications = <<>>

Next == Cluster \/ Recommend \/ Render

Spec == Init /\ [][Next]_vars

(* ----------------------- the dbscan runs of the page -------------------- *)

MaxDBSCANRecords == 5

\* The default of the parameter n_clusters, which dbscan ignores.
DefaultClusterCount == 5

\* The feature selections of the dbscan runs: the default (features=None)
\* and two single features.
DBSCANFeatureArgs == {<<>>, <<{"Amount"}>>, <<{"Category"}>>}

\* A call of cluster_scholarships with method='dbscan'.
ClusterDBSCAN ==
    /\ last = Idle
    /\ \E df \in SeqsUpTo(RecordUniverse, MaxDBSCANRecords),
          features \in DBSCANFeatureArgs :
        \E o \in cluster_scholarships(label_encoders, df, "dbscan",
                                      DefaultClusterCount, features) :
            /\ label_encoders' = o.encoders
            /\ caller_df' = o.df
            /\ UNCHANGED <<sessionVars, restVars>>
            /\ last' = Call("cluster", df, "dbscan", DefaultClusterCount, features, o.ret)

NextDBSCAN == ClusterDBSCAN \/ Render

SpecDBSCAN == Init /\ [][NextDBSCAN]_vars

(* --------------------- runs on the Deadline feature -------------------- *)

MaxDeadlineRecords == 3

\* A deadline that is None, and one that is a string no date parser accepts.
Missing == [kind |-> "missing", day |-> 0]

Unparsable == [kind |-> "bad", day |-> 0]

WithDeadline(amount, deadline) ==
    [Scholarship(amount, "Arts") EXCEPT !.deadline = deadline]

\* Records that differ in amount and deadline.
DeadlineUniverse ==
    {WithDeadline(1000, Date(30)), WithDeadline(5000, Date(90)),
     WithDeadline(1000, Missing), WithDeadline(1000, Unparsable),
     WithDeadline(5000, Unparsable)}

DeadlineFeatureSelections == SUBSET {"Amount", "Category", "Deadline"}

\* A call of cluster_scholarships on records with deadlines of every kind,
\* Deadline among the features that can be selected.
ClusterDeadline ==
    /\ last = Idle
    /\ \E df \in SeqsUpTo(DeadlineUniverse, MaxDeadlineRecords),
          method \in {"kmeans", "dbscan"},
          features \in DeadlineFeatureSelections :
        \E o \in cluster_scholarships(label_encoders, df, method, 2, <<features>>) :
            /\ label_encoders' = o.encoders
            /\ caller_df' = o.df
            /\ UNCHANGED <<sessionVars, restVars>>
            /\ last' = Call("cluster", df, method, 2, <<features>>, o.ret)

NextDeadline == ClusterDeadline \/ Render

SpecDeadline == Init /\ [][NextDeadline]_vars

(* ------------------- one engine per session, interleaved --------------- *)

MaxSessionRecords == 2

SessionTables == SeqsUpTo(RecordUniverse, MaxSessionRecords) \ {<<>>}

SessionFeatureSelections == {{"Category"}, {"Amount", "Category"}}

\* A label_encoders that is an attribute of the class, shared by every
\* instance.
StoreEncoders_Shared(all, s, encoders) == [t \in DOMAIN all |-> encoders]

\* __init__ gives every instance a dict of its own (self.label_encoders =
\* {}): what the engine of session s stores is stored in that dict only.
StoreEncoders(all, s, encoders) == [all EXCEPT ![s] = encoders]

\* Session s enters cluster_scholarships with a non-empty table and runs
\* _prepare_features (line 44) on its engine.  `solo` is what the same line
\* gives on the engine the session would have had it run alone.
Enter(s) ==
    /\ pending[s] = <<>>
    /\ last = Idle
    /\ \E df \in SessionTables, features \in SessionFeatureSelections :
        LET pf == _prepare_features(engines[s], df, features)
            solo == _prepare_features(alone[s], df, features)
        IN  /\ engines' = StoreEncoders(engines, s, pf.encoders)
            /\ alone' = [alone EXCEPT ![s] = solo.encoders]
            /\ pending' = [pending EXCEPT ![s] =
                              <<[df |-> df, features |-> features, pf |-> pf,
                                 solo |-> solo]>>]
    /\ UNCHANGED <<label_encoders, last, caller_df, restVars>>

\* Session s runs the rest of the call (lines 46-72, method='dbscan') and
\* gets its result.
Leave(s) ==
    /\ pending[s] # <<>>
    /\ last = Idle
    /\ LET c == pending[s][1]
       IN  \E o \in AfterPrepare(c.pf, c.df, "dbscan", DefaultClusterCount, c.features) :
             last' = Call("cluster", c.df, "dbscan", DefaultClusterCount,
                          <<c.features>>, ExceptClause(o.ret))
    /\ pending' = [pending EXCEPT ![s] = <<>>]
    /\ UNCHANGED <<label_encoders, caller_df, engines, alone, restVars>>

NextSessions == (\E s \in Sessions : Enter(s) \/ Leave(s)) \/ Render

SpecSessions == Init /\ [][NextSessions]_vars

(* -------------------------- get_cluster_summaries ---------------------- *)

MaxSummaryRecords == 3

\* The cluster labels of the tables summarized: noise and two cluster ids.
SummaryLabels == {-1, 0, 1}

\* clustered_df[clustered_df['cluster'] == cluster_id].
ClusterData(clustered_df, cluster_id) ==
    SelectSeq(clustered_df, LAMBDA r : r.cluster = cluster_id)

\* Series.mean(): the quotient sum / count, kept as its two parts.  pandas
\* divides nothing by zero: the mean of no values is NaN, here count = 0.
Mean(col) == [sum |-> SumSeq(col), count |-> Len(col)]

NaN == Mean(<<>>)

\* Series.min() and Series.max(): <<v>>, or <<>> for the NaN of no values.
SeriesMin(col) ==
    IF col = <<>> THEN <<>>
    ELSE <<CHOOSE x \in Range(col) : \A y \in Range(col) : x <= y>>

SeriesMax(col) ==
    IF col = <<>> THEN <<>>
    ELSE <<CHOOSE x \in Range(col) : \A y \in Range(col) : y <= x>>

\* Lines 239 and 241: cluster_data['category'].value_counts().to_dict().
CategoryCounts(cluster_data) ==
    [c \in Range(Column(cluster_data, "category")) |->
        Cardinality({i \in DOMAIN cluster_data : cluster_data[i].category = c})]

\* Line 240, `category_counts.index[0] if not category_counts.empty else
\* "N/A"`: value_counts sorts by count with a sort that is not stable, so
\* among the categories with the highest count any may come first.
MostCommonCategory(cluster_data) ==
    LET category_counts == CategoryCounts(cluster_data)
    IN  IF DOMAIN category_counts = {}
        THEN {[exc |-> "", value |-> "N/A"]}
        ELSE {[exc |-> "", value |-> c] :
                 c \in {d \in DOMAIN category_counts :
                          \A o \in DOMAIN category_counts :
                              category_counts[o] <= category_counts[d]}}

\* Lines 244-253, dict(Counter(all_demographics).most_common(5)), {} when
\* there is no label: the 5 labels with the highest counts, with their
\* counts; of two labels with one count, the one met first in
\* all_demographics is taken first.  A record's labels are kept as a set, so
\* labels first met in one record may be taken in either order.
MostCommonDemographics(cluster_data) ==
    LET labels == UNION {cluster_data[i].target_demographics : i \in DOMAIN cluster_data}
        count(d) == Cardinality({i \in DOMAIN cluster_data :
                                    d \in cluster_data[i].target_demographics})
        first(d) == CHOOSE i \in DOMAIN cluster_data :
                        /\ d \in cluster_data[i].target_demographics
                        /\ \A j \in 1 .. i - 1 : d \notin cluster_data[j].target_demographics
    IN  {[d \in top |-> count(d)] :
            top \in {t \in SUBSET labels :
                       /\ Cardinality(t) = Min(5, Cardinality(labels))
                       /\ \A x \in t, y \in labels \ t :
                             \/ count(x) > count(y)
                             \/ count(x) = count(y) /\ first(x) <= first(y)}}

\* Lines 256-263: pd.to_datetime raises when an entry cannot be parsed and
\* the except clause gives (None, 0); otherwise None becomes NaT, whose days
\* are NaN: the mean skips them and no comparison with 30 holds for them.
DeadlineStats(cluster_data) ==
    IF \E i \in DOMAIN cluster_data : cluster_data[i].deadline.kind = "bad"
    THEN [avg_days_until_deadline |-> <<>>, urgent_deadlines |-> 0]
    ELSE LET dated == SelectSeq(cluster_data, LAMBDA r : r.deadline.kind = "date")
             days_until == [i \in DOMAIN dated |-> DaysUntil(dated[i].deadline)]
         IN  [avg_days_until_deadline |-> <<Mean(days_until)>>,
              urgent_deadlines |->
                  Cardinality({i \in DOMAIN days_until : days_until[i] <= 30})]

\* The body of the loop of get_cluster_summaries (lines 229-263) for the
\* rows cluster_data of one cluster: the summaries it can build, or the
\* exception it raises.
ClusterSummary(cluster_data) ==
    {IF category.exc # ""
     THEN [raised |-> category.exc, summary |-> <<>>]
     ELSE [raised |-> "",
           summary |->
             <<[size |-> Len(cluster_data),
                avg_amount |-> Mean(Column(cluster_data, "amount")),
                total_value |-> SumSeq(Column(cluster_data, "amount")),
                amount_range |-> <<SeriesMin(Column(cluster_data, "amount")),
                                   SeriesMax(Column(cluster_data, "amount"))>>,
                avg_gpa |-> Mean(Column(cluster_data, "gpa_requirement")),
                gpa_range |-> <<SeriesMin(Column(cluster_data, "gpa_requirement")),
                                SeriesMax(Column(cluster_data, "gpa_requirement"))>>,
                most_common_category |-> category.value,
                category_distribution |-> CategoryCounts(cluster_data),
                most_common_demographics |-> demographics,
                avg_days_until_deadline |->
                    DeadlineStats(cluster_data).avg_days_until_deadline,
                urgent_deadlines |-> DeadlineStats(cluster_data).urgent_deadlines]>>] :
        category \in MostCommonCategory(cluster_data),
        demographics \in MostCommonDemographics(cluster_data)}

\* The loop of lines 225-265 over the cluster ids `ids`: the dicts of
\* summaries it can build, or the exception a summary raises.
SummariesOf(clustered_df, ids) ==
    LET of(c) == ClusterSummary(ClusterData(clustered_df, c))
        failures == UNION {{s \in of(c) : s.raised # ""} : c \in ids}
        built == UNION {{s.summary[1] : s \in {t \in of(c) : t.raised = ""}} : c \in ids}
    IN  IF failures # {}
        THEN {[raised |-> s.raised, summaries |-> <<>>] : s \in failures}
        ELSE {[raised |-> "", summaries |-> g] :
                 g \in {f \in [ids -> built] :
                          \A c \in ids : \E s \in of(c) : s.summary[1] = f[c]}}

\* Summaries of the clusters only, the noise rows left out.
get_cluster_summaries_NoNoise(clustered_df) ==
    SummariesOf(clustered_df,
                {clustered_df[i].cluster : i \in DOMAIN clustered_df} \ {-1})

\* get_cluster_summaries(clustered_df): a dict with one summary for each
\* value of clustered_df['cluster'].unique().
get_cluster_summaries(clustered_df) ==
    SummariesOf(clustered_df, {clustered_df[i].cluster : i \in DOMAIN clustered_df})

\* Records that differ in amount, category, demographics and deadline:
\* a deadline may be a date, None or a string that is no date.
SummaryUniverse ==
    {Scholarship(1000, "Arts"),
     [Scholarship(5000, "STEM") EXCEPT !.deadline = Date(30),
                                       !.target_demographics = {"LGBTQ+"}],
     [Scholarship(1000, "Arts") EXCEPT !.deadline = Missing,
                                       !.target_demographics = {}],
     [Scholarship(5000, "STEM") EXCEPT !.deadline = Unparsable]}

\* The labeled tables of up to MaxSummaryRecords rows.
LabeledTables ==
    SeqsUpTo({r @@ [cluster |-> c] : r \in SummaryUniverse, c \in SummaryLabels},
             MaxSummaryRecords)

\* A call of get_cluster_summaries on a labeled table.
Summarize ==
    /\ last = Idle
    /\ \E clustered_df \in LabeledTables :
        \E result \in get_cluster_summaries(clustered_df) :
          last' = Call("summaries", clustered_df, "", 0, <<>>, result)
    /\ UNCHANGED <<label_encoders, caller_df, sessionVars, restVars>>

NextSummaries == Summarize \/ Render

SpecSummaries == Init /\ [][NextSummaries]_vars

(* -------------------------- visualize_clusters_2d ---------------------- *)

MaxProjectionRecords == 3

\* PCA(n_components=2, random_state=42), not fitted yet.
NewPCA == [n_components |-> 2, random_state |-> 42, fitted |-> FALSE]

\* PCA.fit_transform(X) with n_components=2: sklearn raises ValueError
\* unless 2 <= min(n_samples, n_features).
PCA_fit_transform(matrix) ==
    LET n_samples == NumRows(matrix)
        n_features == Len(matrix)
    IN  IF Min(n_samples, n_features) < 2
        THEN [exc |-> "n_components=2 must be between 0 and min(n_samples, n_features)="
                         \o ToString(Min(n_samples, n_features))
                         \o " with svd_solver='full'",
              coordinates_2d |-> <<>>]
        ELSE [exc |-> "",
              coordinates_2d |-> [i \in 1 .. n_samples |->
                                     [row |-> Row(matrix, i), components |-> 2]]]

\* visualize_clusters_2d(clustered_df, feature_matrix) in an engine whose
\* self.pca is `engine_pca`: what the call returns or raises, and self.pca
\* afterwards.  The coordinates are kept as the rows they project; the
\* title, amount and category columns and the variance ratios of the
\* payload are left out.
visualize_clusters_2d(engine_pca, clustered_df, matrix) ==
    IF Len(matrix) < 2
    THEN [raised |-> "", viz_data |-> <<>>, pca |-> engine_pca]
    ELSE LET fit == PCA_fit_transform(matrix)
         IN  IF fit.exc # ""
             THEN [raised |-> fit.exc, viz_data |-> <<>>, pca |-> <<NewPCA>>]
             ELSE [raised |-> "",
                   viz_data |-> <<[xy |-> fit.coordinates_2d,
                                   cluster |-> Column(clustered_df, "cluster")]>>,
                   pca |-> <<[NewPCA EXCEPT !.fitted = TRUE]>>]

\* The page's data flow: a table is labeled, its standardized feature
\* matrix is built and both are handed to visualize_clusters_2d.
Visualize ==
    /\ last = Idle
    /\ \E df \in SeqsUpTo(RecordUniverse, MaxProjectionRecords) \ {<<>>},
          features \in FeatureSelections \ {{}} :
        LET pf == _prepare_features(<<>>, df, features)
            clustered_df == [i \in DOMAIN df |-> df[i] @@ [cluster |-> 0]]
            v == visualize_clusters_2d(pca, clustered_df, pf.matrix[1])
        IN  /\ pca' = v.pca
            /\ last' = Call("visualize", clustered_df, "", 0, <<features>>,
                             [raised |-> v.raised, viz_data |-> v.viz_data,
                              feature_matrix |-> pf.matrix[1]])
    /\ UNCHANGED <<label_encoders, caller_df, sessionVars, applications>>

NextProjection == Visualize \/ Render

SpecProjection == Init /\ [][NextProjection]_vars

(* ------------------ recommend_optimal_clusters, loop ------------------- *)

MaxRecommendRecords == 6

\* Tables of 4 records or more, the ones that reach the loop of line 282.
RecommendTables ==
    {df \in SeqsUpTo({Scholarship(1000, "Arts"), Scholarship(5000, "STEM")},
                     MaxRecommendRecords) : ~TooFewRecords(df)}

RecommendLoop ==
    /\ last = Idle
    /\ \E df \in RecommendTables, features \in FeatureSelections :
        \E o \in recommend_optimal_clusters(label_encoders, df, features) :
            /\ label_encoders' = o.encoders
            /\ caller_df' = o.df
            /\ UNCHANGED <<sessionVars, restVars>>
            /\ last' = Call("recommend", df, "", 0, <<features>>, o.ret)

NextRecommend == RecommendLoop \/ Render

SpecRecommend == Init /\ [][NextRecommend]_vars

(* ------------------- Demographics with many labels -------------------- *)

MaxDemographicRecords == 3

Targeting(demographics) ==
    [Scholarship(1000, "Arts") EXCEPT !.target_demographics = demographics]

\* Records that target no group, one group, or ten groups at once.
DemographicUniverse ==
    {Targeting({}), Targeting({"Women in STEM"}),
     Targeting({"First-generation college student"}),
     Targeting(Range(DemographicOrder) \ {"Women in STEM"})}

\* A call of cluster_scholarships with Demographics selected; next to the
\* call and its result, the labels the binary columns were built for
\* (common_demographics of line 106) are kept.
ClusterDemographics ==
    /\ last = Idle
    /\ \E df \in SeqsUpTo(DemographicUniverse, MaxDemographicRecords),
          features \in {{"Demographics"}, {"Amount", "Demographics"}} :
        \E o \in cluster_scholarships(label_encoders, df, "kmeans", 2, <<features>>) :
            /\ label_encoders' = o.encoders
            /\ caller_df' = o.df
            /\ UNCHANGED <<sessionVars, restVars>>
            /\ last' = Call("cluster", df, "kmeans", 2, <<features>>, o.ret)
                            @@ [common_demographics |-> CommonDemographics(df)]

NextDemographics == ClusterDemographics \/ Render

SpecDemographics == Init /\ [][NextDemographics]_vars

(* ----------------------- one engine, many batches --------------------- *)

MaxHistoryRecords == 3

\* A call of cluster_scholarships on an engine that has served other calls:
\* every feature selection, a method that takes a count and one that does not.
ClusterAgain ==
    /\ last = Idle
    /\ \E df \in SeqsUpTo(RecordUniverse, MaxHistoryRecords),
          method \in {"kmeans", "dbscan"},
          features \in FeatureSelections :
        \E o \in cluster_scholarships(label_encoders, df, method, 2, <<features>>) :
            /\ label_encoders' = o.encoders
            /\ caller_df' = o.df
            /\ UNCHANGED <<sessionVars, restVars>>
            /\ last' = Call("cluster", df, method, 2, <<features>>, o.ret)

NextHistory == ClusterAgain \/ Render

SpecHistory == Init /\ [][NextHistory]_vars

(* ----------------------- DBSCAN on large batches ---------------------- *)

MaxMatrixRows == 80

\* _dbscan_clustering on a feature matrix of n rows, as far as the
\* min_samples argument goes: the argument DBSCAN is constructed with, and
\* the number of rows fit_predict then labels as noise (any number).
FitDBSCAN ==
    /\ last = Idle
    /\ \E n \in 1 .. MaxMatrixRows :
        \E n_noise \in 0 .. n :
            last' = Call("dbscan", <<>>, "dbscan", 0, <<>>,
                         [raised |-> "", n_rows |-> n,
                          min_samples |-> MinSamples(n),
                          n_noise_points |-> n_noise])
    /\ UNCHANGED <<label_encoders, caller_df, sessionVars, restVars>>

NextMinSamples == FitDBSCAN \/ Render

SpecMinSamples == Init /\ [][NextMinSamples]_vars

(* --------------------------- ApplicationTracker ------------------------ *)

MaxApplications == 2

MaxDocuments == 2

MaxReminders == 1

\* self.status_options.
status_options ==
    <<"Not Started", "In Progress", "Submitted", "Under Review",
      "Awaiting Decision", "Accepted", "Rejected", "Waitlisted">>

\* A scholarship title, as far as _get_required_documents reads it: the
\* keywords it contains.
Titles == {{}, {"STEM", "Leadership"}}

\* _get_required_documents(scholarship_title).
_get_required_documents(scholarship_title) ==
    <<"Personal Statement", "Transcripts", "Letters of Recommendation">>
    \o (IF "STEM" \in scholarship_title \/ "Engineering" \in scholarship_title
        THEN <<"Portfolio", "Research Summary">> ELSE <<>>)
    \o (IF "Leadership" \in scholarship_title THEN <<"Leadership Examples">> ELSE <<>>)
    \o (IF "Need-based" \in scholarship_title
        THEN <<"Financial Aid Documentation">> ELSE <<>>)

\* _calculate_completion(status): completion_map.get(status, 0).
_calculate_completion(status) ==
    CASE status = "Not Started" -> 0
      [] status = "In Progress" -> 25
      [] status \in {"Submitted", "Under Review", "Awaiting Decision",
                     "Accepted", "Rejected", "Waitlisted"} -> 100
      [] OTHER -> 0

\* _calculate_document_completion(application):
\* min(100, int(submitted / required * 80 + status_bonus)).
_calculate_document_completion(application) ==
    LET required_docs == Len(application.required_documents)
        submitted_docs == Len(application.submitted_documents)
        status_bonus == IF application.status = "Submitted" THEN 20 ELSE 0
    IN  IF required_docs = 0
        THEN 50
        ELSE Min(100, (submitted_docs * 80) \div required_docs + status_bonus)

\* The application add_application builds (the dates, the priority and the
\* scholarship id are left out).
Application(id, scholarship_title) ==
    [id |-> id, scholarship_title |-> scholarship_title,
     status |-> "Not Started", completion_percentage |-> 0,
     required_documents |-> _get_required_documents(scholarship_title),
     submitted_documents |-> <<>>, notes |-> "", reminders |-> <<>>]

AppId(n) == "app_" \o ToString(n)

\* add_application(scholarship_id, scholarship_title, user_profile) on a
\* tracker whose list is `apps`: the new list and the returned application.
add_application(apps, scholarship_title) ==
    LET application == Application(AppId(Len(apps) + 1), scholarship_title)
    IN  [applications |-> Append(apps, application), ret |-> application]

\* `for app in self.applications: if app['id'] == app_id`: the position of
\* the first application with that id, 0 when there is none.
FirstWithId(apps, app_id) ==
    IF \E i \in DOMAIN apps : apps[i].id = app_id
    THEN CHOOSE i \in DOMAIN apps :
            /\ apps[i].id = app_id
            /\ \A j \in 1 .. i - 1 : apps[j].id # app_id
    ELSE 0

\* update_application_status(app_id, new_status, notes).
update_application_status(apps, app_id, new_status, notes) ==
    LET i == FirstWithId(apps, app_id)
    IN  IF i = 0
        THEN [applications |-> apps, ret |-> FALSE]
        ELSE [applications |->
                 [apps EXCEPT ![i] =
                     [@ EXCEPT !.status = new_status,
                               !.notes = IF notes # "" THEN notes ELSE @,
                               !.completion_percentage =
                                   _calculate_completion(new_status)]],
              ret |-> TRUE]

\* add_document(app_id, document_name, document_type).
add_document(apps, app_id, document_name, document_type) ==
    LET i == FirstWithId(apps, app_id)
    IN  IF i = 0
        THEN [applications |-> apps, ret |-> FALSE]
        ELSE LET document == [name |-> document_name, type |-> document_type]
                 app == [apps[i] EXCEPT !.submitted_documents = Append(@, document)]
             IN  [applications |->
                     [apps EXCEPT ![i] =
                         [app EXCEPT !.completion_percentage =
                                         _calculate_document_completion(app)]],
                  ret |-> TRUE]

\* set_reminder(app_id, reminder_date, message).
set_reminder(apps, app_id, reminder_date, message) ==
    LET i == FirstWithId(apps, app_id)
    IN  IF i = 0
        THEN [applications |-> apps, ret |-> FALSE]
        ELSE [applications |->
                 [apps EXCEPT ![i].reminders =
                     Append(@, [date |-> reminder_date, message |-> message])],
              ret |-> TRUE]

\* import_applications(data): data is a JSON text that holds a list, holds
\* something else, or does not parse.  A list replaces self.applications
\* as it is.
import_applications(apps, data) ==
    IF data.json = "list"
    THEN [applications |-> data.value, ret |-> TRUE]
    ELSE [applications |-> apps, ret |-> FALSE]

\* The ids a caller may name: those add_application can have given, and one
\* more.
AppIds == {AppId(n) : n \in 1 .. MaxApplications + 1}

\* JSON texts: exports of new applications, a JSON object, an unparsable text.
ImportData ==
    {[json |-> "list", value |-> v] :
        v \in SeqsUpTo({Application(AppId(n), {}) : n \in 1 .. MaxApplications},
                       MaxApplications)}
    \cup {[json |-> "object", value |-> <<>>], [json |-> "invalid", value |-> <<>>]}

trackerRest == <<label_encoders, last, caller_df, sessionVars, pca>>

AddApplication ==
    /\ Len(applications) < MaxApplications
    /\ \E scholarship_title \in Titles :
          applications' = add_application(applications, scholarship_title).applications
    /\ UNCHANGED trackerRest

UpdateStatus ==
    /\ \E app_id \in AppIds, new_status \in Range(status_options) :
          applications' =
              update_application_status(applications, app_id, new_status, "").applications
    /\ UNCHANGED trackerRest

AddDocument ==
    /\ \E app_id \in AppIds :
          /\ \A i \in {FirstWithId(applications, app_id)} \ {0} :
                Len(applications[i].submitted_documents) < MaxDocuments
          /\ applications' =
                add_document(applications, app_id, "Transcripts", "general").applications
    /\ UNCHANGED trackerRest

SetReminder ==
    /\ \E app_id \in AppIds :
          /\ \A i \in {FirstWithId(applications, app_id)} \ {0} :
                Len(applications[i].reminders) < MaxReminders
          /\ applications' =
                set_reminder(applications, app_id, "2025-01-01", "Submit").applications
    /\ UNCHANGED trackerRest

ImportApplications ==
    /\ \E data \in ImportData :
          applications' = import_applications(applications, data).applications
    /\ UNCHANGED trackerRest

NextTracker ==
    AddApplication \/ UpdateStatus \/ AddDocument \/ SetReminder \/ ImportApplications

SpecTracker == Init /\ [][NextTracker]_vars

NextCompletion == AddApplication \/ UpdateStatus \/ AddDocument

SpecCompletion == Init /\ [][NextCompletion]_vars

(* ------------------------------ properties ----------------------------- *)

\* The call returned (None, None).
IsNoneNone(ret) == ret.raised = "" /\ ret.table = <<>> /\ ret.info = <<>>

\* The call returned (labeled table, metadata), both present.
IsLabeled(ret) == ret.raised = "" /\ ret.table # <<>> /\ ret.info # <<>>

NeedsCount == {"kmeans", "hierarchical"}

Labels(ret) == {ret.table[1][i].cluster : i \in DOMAIN ret.table[1]}

Categories(df) == {df[i].category : i \in DOMAIN df}

\* The feature selection a cluster() call works with.
Selected(call) == IF call.features = <<>> THEN DefaultFeatures ELSE call.features[1]

\* C1: cluster() on an empty record table returns (None, None) without
\* raising, whatever the method, cluster_count and feature selection, and
\* leaves the categorical encoder cache as it was.
C1_EmptyTable ==
    [][(last'.op = "cluster" /\ last'.df = <<>>)
          => (IsNoneNone(last'.ret) /\ label_encoders' = label_encoders)]_vars

\* An empty table was passed with Category selected to an engine that had
\* fitted its encoder before.
C1_Witness ==
    /\ last.op = "cluster" /\ last.df = <<>>
    /\ "Category" \in Selected(last)
    /\ "category" \in DOMAIN label_encoders
    /\ IsNoneNone(last.ret)

\* C2: every call of cluster() ends in (labeled table, metadata), both
\* present, or in (None, None); it never raises and never returns one
\* component without the other.
C2_TwoOutcomes ==
    last.op = "cluster" => (IsLabeled(last.ret) \/ IsNoneNone(last.ret))

\* An unsupported method string on a non-empty table, in an engine whose
\* encoder exists: the ValueError of line 57 became (None, None).
C2_Witness ==
    /\ last.op = "cluster" /\ last.df # <<>> /\ last.method = "spectral"
    /\ "category" \in DOMAIN label_encoders
    /\ IsNoneNone(last.ret)
    /\ last.ret.diag = "Clustering failed: Unsupported clustering method: spectral"

\* C3: for kmeans and hierarchical, a successful run returns one row per
\* input record, in the input order, each with an integer cluster label in
\* [0, cluster_count).
C3_LabelCoverage ==
    (last.op = "cluster" /\ last.method \in NeedsCount /\ IsLabeled(last.ret))
        => LET t == last.ret.table[1]
           IN  /\ Len(t) = Len(last.df)
               /\ \A i \in DOMAIN t :
                     /\ [f \in DOMAIN last.df[i] |-> t[i][f]] = last.df[i]
                     /\ t[i].cluster \in 0 .. last.n_clusters - 1

\* A successful kmeans run with 3 clusters on 4 records.
C3_Witness ==
    /\ last.op = "cluster" /\ last.method = "kmeans" /\ last.n_clusters = 3
    /\ Len(last.df) = 4 /\ IsLabeled(last.ret)
    /\ Labels(last.ret) = {0, 1, 2}

\* C4: for kmeans and hierarchical and every positive cluster_count less
\* than the number of records (1 included), cluster() succeeds and the
\* labels take exactly cluster_count distinct values, the n_clusters of the
\* metadata.
C4_ExactlyKClusters ==
    (last.op = "cluster" /\ last.method \in NeedsCount
       /\ last.n_clusters >= 1 /\ last.n_clusters < Len(last.df))
        => /\ IsLabeled(last.ret)
           /\ Cardinality(Labels(last.ret)) = last.n_clusters
           /\ last.ret.info[1].n_clusters = last.n_clusters

\* C5: for kmeans and hierarchical, a cluster_count that is non-positive or
\* not less than the number of records is rejected at once with nothing
\* computed: no feature matrix is built and the encoder cache is neither
\* created nor modified.
C5_RejectedBeforeComputation ==
    [][(last'.op = "cluster" /\ last'.df # <<>> /\ last'.method \in NeedsCount
          /\ (last'.n_clusters <= 0 \/ last'.n_clusters >= Len(last'.df)))
          => /\ IsNoneNone(last'.ret)
             /\ last'.ret.steps = <<>>
             /\ label_encoders' = label_encoders]_vars

NoValidFeaturesDiag == "Clustering failed: No valid features for clustering"

\* C6: cluster() on a non-empty table with an empty feature selection fails
\* with its own diagnostic (not that of the empty-input outcome nor of a
\* failure of a clustering algorithm), attempts no clustering and leaves the
\* engine state unchanged.
C6_EmptyFeatureSelection ==
    [][/\ (last'.op = "cluster" /\ last'.df # <<>> /\ last'.features = <<{}>>)
            => /\ IsNoneNone(last'.ret)
               /\ last'.ret.diag = NoValidFeaturesDiag
               /\ last'.ret.steps = <<"_prepare_features">>
               /\ label_encoders' = label_encoders
       /\ (last'.op = "cluster" /\ IsNoneNone(last'.ret)
             /\ (last'.df = <<>> \/ Len(last'.ret.steps) = 2))
            => last'.ret.diag # NoValidFeaturesDiag]_vars

\* An empty feature selection on 3 records with a cluster_count that kmeans
\* would accept.
C6_Witness ==
    /\ last.op = "cluster" /\ Len(last.df) = 3 /\ last.features = <<{}>>
    /\ last.method = "kmeans" /\ last.n_clusters = 2
    /\ last.ret.diag = NoValidFeaturesDiag

\* C7: whenever cluster() returns (None, None), the engine's categorical
\* encoder cache is what it was before the call.
C7_FailsAtomically ==
    [][(last'.op = "cluster" /\ IsNoneNone(last'.ret))
          => label_encoders' = label_encoders]_vars

\* The code the engine gives category string c, as an Optional.
CodeOf(encoders, c) ==
    IF "category" \notin DOMAIN encoders THEN <<>>
    ELSE LET t == LabelEncoder_transform(encoders["category"], <<c>>)
         IN  IF t.exc # "" THEN <<>> ELSE t.codes

\* C8: once the engine's encoder has assigned a category string a code,
\* every later call on the engine encodes the string with the same code.
C8_StableCodes ==
    [][\A c \in Range(CategoryOrder) :
          CodeOf(label_encoders, c) # <<>>
              => CodeOf(label_encoders', c) = CodeOf(label_encoders, c)]_vars

\* A successful run with Category selected on STEM records only, in an
\* engine whose encoder was fitted to Arts and STEM by an earlier run: STEM
\* is still encoded as 1.
C8_Witness ==
    /\ last.op = "cluster" /\ "Category" \in Selected(last)
    /\ Categories(last.df) = {"STEM"}
    /\ IsLabeled(last.ret)
    /\ CodeOf(label_encoders, "STEM") = <<1>>

\* C9: a run with Category selected on a batch holding a category string the
\* engine's encoder has not seen appends a code for it and, with valid
\* preconditions for the method, returns a labeled table; the entries of the
\* cache stay as they were.
C9_AppendOnly ==
    [][(/\ last'.op = "cluster" /\ "Category" \in Selected(last')
        /\ "category" \in DOMAIN label_encoders
        /\ \E c \in Categories(last'.df) : CodeOf(label_encoders, c) = <<>>
        /\ \/ last'.method = "dbscan"
           \/ /\ last'.method \in NeedsCount
              /\ last'.n_clusters >= 1 /\ last'.n_clusters < Len(last'.df))
          => /\ IsLabeled(last'.ret)
             /\ \A c \in Categories(last'.df) : CodeOf(label_encoders', c) # <<>>
             /\ \A c \in Range(CategoryOrder) :
                   CodeOf(label_encoders, c) # <<>>
                       => CodeOf(label_encoders', c) = CodeOf(label_encoders, c)]_vars

\* C10: recommend_optimal_clusters never raises: it returns a result record
\* with a recommended count and a score table.
C10_RecommendNeverRaises ==
    last.op = "recommend" => (last.ret.raised = "" /\ last.ret.result # <<>>)

\* The rows of a labeled table whose cluster label is c.
ClusterRows(ret, c) == {i \in DOMAIN ret.table[1] : ret.table[1][i].cluster = c}

\* C11: for dbscan, every label of the output is -1 (noise) or a
\* non-negative cluster id, the reported n_clusters is the number of distinct
\* non-noise labels, and the reported noise count plus the sizes of the
\* non-noise clusters is the number of input records.
C11_DBSCANCounts ==
    (last.op = "cluster" /\ last.method = "dbscan" /\ IsLabeled(last.ret))
        => LET info == last.ret.info[1]
               ids == Labels(last.ret) \ {-1}
               sizes == [j \in 1 .. Len(last.df) |->
                            Cardinality(ClusterRows(last.ret, j - 1))]
           IN  /\ \A c \in Labels(last.ret) : c = -1 \/ c >= 0
               /\ info.n_clusters = Cardinality(ids)
               /\ info.n_noise_points = Cardinality(ClusterRows(last.ret, -1))
               /\ \A c \in ids : c < Len(last.df)
               /\ info.n_noise_points + SumSeq(sizes) = Len(last.df)

\* A dbscan run on 5 records that found two clusters and one noise point.
C11_Witness ==
    /\ last.op = "cluster" /\ last.method = "dbscan" /\ IsLabeled(last.ret)
    /\ Len(last.df) = 5
    /\ Labels(last.ret) = {-1, 0, 1}
    /\ last.ret.info[1].n_clusters = 2
    /\ last.ret.info[1].n_noise_points = 1

\* C12: for dbscan, the reported silhouette score is the literal 0 whenever
\* fewer than two non-noise clusters exist or every point is noise;
\* otherwise it is the score of the non-noise points and their labels only.
C12_DBSCANSilhouette ==
    (last.op = "cluster" /\ last.method = "dbscan" /\ IsLabeled(last.ret))
        => LET score == last.ret.info[1].silhouette_score
               ids == Labels(last.ret) \ {-1}
               non_noise == DOMAIN last.ret.table[1] \ ClusterRows(last.ret, -1)
           IN  IF Cardinality(ids) < 2 \/ non_noise = {}
               THEN score = ScoreZero
               ELSE /\ ~score.literal
                    /\ score.rows = non_noise
                    /\ \A i \in non_noise :
                          score.labels[i] = last.ret.table[1][i].cluster

\* A dbscan run on 5 records that found two clusters and a noise point in
\* the third row, and scored the four clustered rows.
C12_Witness ==
    /\ last.op = "cluster" /\ last.method = "dbscan" /\ IsLabeled(last.ret)
    /\ Len(last.df) = 5
    /\ last.ret.table[1][3].cluster = -1
    /\ last.ret.info[1].silhouette_score.rows = {1, 2, 4, 5}

\* C13: recommend_optimal_clusters on fewer than 4 records returns the
\* recommended count 2 with an empty score table and builds no features:
\* the encoder cache is what it was before the call.
C13_RecommendSmallTable ==
    [][(last'.op = "recommend" /\ Len(last'.df) < 4)
          => /\ last'.ret.raised = ""
             /\ last'.ret.result # <<>>
             /\ last'.ret.result[1].recommended_clusters = 2
             /\ last'.ret.result[1].scores = <<>>
             /\ label_encoders' = label_encoders]_vars

\* A recommendation asked for 3 records of two categories, with Category
\* selected, from an engine that has fitted no encoder: it still has none.
C13_Witness ==
    /\ last.op = "recommend" /\ Len(last.df) = 3
    /\ Categories(last.df) = {"Arts", "STEM"}
    /\ "Category" \in Selected(last)
    /\ label_encoders = <<>>
    /\ last.ret.result[1].recommended_clusters = 2

\* C14: for 4 records or more, recommend_optimal_clusters evaluates the
\* candidate counts 2 .. min(10, n div 2), returns a score table with one
\* score per candidate that did not fail, and recommends the candidate with
\* the highest score, the lowest count among those that tie.
C14_RecommendCandidates ==
    (last.op = "recommend" /\ Len(last.df) >= 4)
        => /\ last.ret.raised = ""
           /\ last.ret.result # <<>>
           /\ LET r == last.ret.result[1]
                  candidates == 2 .. Min(10, Len(last.df) \div 2)
              IN  /\ DOMAIN r.scores \subseteq candidates
                  /\ DOMAIN r.scores # {}
                        => /\ r.recommended_clusters \in DOMAIN r.scores
                           /\ \A c \in DOMAIN r.scores :
                                 /\ r.scores[c] <= r.scores[r.recommended_clusters]
                                 /\ r.scores[c] = r.scores[r.recommended_clusters]
                                       => r.recommended_clusters <= c

\* The two results differ at most in the features_used of the metadata.
SameButFeaturesUsed(ret, other) ==
    /\ ret.raised = other.raised /\ ret.table = other.table
    /\ ret.diag = other.diag /\ ret.steps = other.steps
    /\ (ret.info = <<>>) = (other.info = <<>>)
    /\ ret.info # <<>> /\ other.info # <<>>
          => [ret.info[1] EXCEPT !.features_used = {}]
               = [other.info[1] EXCEPT !.features_used = {}]

AllUnparsable(df) == \A i \in DOMAIN df : df[i].deadline.kind = "bad"

\* C15: when every record's deadline is unparsable and Deadline is
\* selected, cluster() omits the deadline column: with another feature
\* selected the run is the run on the other features, and it fails for want
\* of features, with (None, None), only if Deadline was the only feature
\* selected.
C15_UnparsableDeadlines ==
    [][(/\ last'.op = "cluster" /\ last'.df # <<>>
        /\ "Deadline" \in Selected(last') /\ AllUnparsable(last'.df))
          => IF Selected(last') = {"Deadline"}
             THEN IsNoneNone(last'.ret) /\ last'.ret.diag = NoValidFeaturesDiag
             ELSE /\ last'.ret.diag # NoValidFeaturesDiag
                  /\ \E o \in cluster_scholarships(
                                label_encoders, last'.df, last'.method,
                                last'.n_clusters,
                                <<Selected(last') \ {"Deadline"}>>) :
                        /\ o.encoders = label_encoders'
                        /\ SameButFeaturesUsed(last'.ret, o.ret)]_vars

\* Three records with unparsable deadlines and two amounts: with Amount and
\* Deadline selected kmeans labeled them, so the deadline column was left
\* out without a failure.
C15_Witness ==
    /\ last.op = "cluster" /\ Len(last.df) = 3 /\ AllUnparsable(last.df)
    /\ last.features = <<{"Amount", "Deadline"}>>
    /\ last.method = "kmeans" /\ IsLabeled(last.ret)

\* C16: the Deadline default is per record: in a batch with a parseable
\* deadline the Deadline column is kept, the records with a parseable
\* deadline get their days until the deadline and the records with an
\* unparsable or missing one get 365; so the run does not fail for want of
\* features.
C16_PerRecordDefault ==
    (/\ last.op = "cluster" /\ "Deadline" \in Selected(last)
     /\ \E i \in DOMAIN last.df : last.df[i].deadline.kind = "date")
        => /\ DeadlineColumns(last.df)
                = << [i \in DOMAIN last.df |->
                        IF last.df[i].deadline.kind = "date"
                        THEN DaysUntil(last.df[i].deadline) ELSE 365] >>
           /\ last.ret.diag # NoValidFeaturesDiag

\* C17: with the seed fixed, a kmeans run of cluster() gives what the same
\* call gives on any other engine, whatever the engine clustered before: it
\* builds the feature matrix a new engine builds from the same records and
\* features (so that KMeans, a function of the matrix and the count once
\* its seed is fixed, assigns the same labels and silhouette_score the same
\* score), and it ends as a run on a new engine can end.
C17_SameOnEveryEngine ==
    [][(last'.op = "cluster" /\ last'.method = "kmeans" /\ last'.df # <<>>)
          => LET here == _prepare_features(label_encoders, last'.df, Selected(last'))
                 new == _prepare_features(<<>>, last'.df, Selected(last'))
             IN  /\ here.exc = new.exc
                 /\ here.matrix = new.matrix
                 /\ \E o \in cluster_scholarships(<<>>, last'.df, "kmeans",
                                                  last'.n_clusters, last'.features) :
                       o.ret = last'.ret]_vars

\* C18: cluster() never modifies its input: after the call the caller's
\* table has the rows and the fields it had before (no cluster field); a
\* successful result is another table, with the same records and the
\* cluster field added.
C18_InputUnmodified ==
    last.op = "cluster"
        => /\ caller_df = last.df
           /\ \A i \in DOMAIN caller_df : "cluster" \notin DOMAIN caller_df[i]
           /\ IsLabeled(last.ret)
                 => /\ last.ret.table[1] # caller_df
                    /\ Len(last.ret.table[1]) = Len(caller_df)
                    /\ \A i \in DOMAIN caller_df :
                          /\ DOMAIN last.ret.table[1][i]
                                = DOMAIN caller_df[i] \cup {"cluster"}
                          /\ \A f \in DOMAIN caller_df[i] :
                                last.ret.table[1][i][f] = caller_df[i][f]

\* A successful hierarchical run on 4 records: the caller still holds its 4
\* records, none with a cluster field.
C18_Witness ==
    /\ last.op = "cluster" /\ last.method = "hierarchical" /\ IsLabeled(last.ret)
    /\ Len(caller_df) = 4
    /\ \A i \in DOMAIN caller_df : DOMAIN caller_df[i] = DOMAIN Scholarship(1000, "Arts")

\* C19: with one engine per session, interleaved cluster() calls of
\* different sessions do not interfere: a step of one session's call never
\* creates or changes the encoder of another session's engine, the engine of
\* the session holds what it would hold had the session run alone, and the
\* call returns a result of the same call run alone.
C19_SessionsIsolated ==
    [][\A s \in Sessions :
          pending'[s] # pending[s]
              => /\ \A t \in Sessions \ {s} : engines'[t] = engines[t]
                 /\ engines'[s] = alone'[s]
                 /\ pending'[s] # <<>> => pending'[s][1].pf = pending'[s][1].solo
                 /\ pending[s] # <<>>
                       => LET c == pending[s][1]
                          IN  \E o \in AfterPrepare(c.solo, c.df, "dbscan",
                                                    DefaultClusterCount, c.features) :
                                last'.ret = ExceptClause(o.ret)]_vars

\* Session s1 is inside a call on STEM records, entered while session s2
\* was inside a call on Arts records: each engine has fitted its own
\* encoder.
C19_Witness ==
    /\ pending["s1"] # <<>> /\ pending["s2"] # <<>>
    /\ engines["s1"] = ("category" :> <<"STEM">>)
    /\ engines["s2"] = ("category" :> <<"Arts">>)
    /\ pending["s1"][1].pf.exc = ""

\* C20: when every record's target_demographics is the same single label
\* and Demographics is the only feature selected, a kmeans run with a
\* cluster_count from 1 to the number of records less one returns a labeled
\* table in which every record has a label in [0, cluster_count).
C20_IdenticalDemographics ==
    (/\ last.op = "cluster" /\ last.method = "kmeans"
     /\ last.features = <<{"Demographics"}>>
     /\ \E d \in Range(DemographicOrder) :
           \A i \in DOMAIN last.df : last.df[i].target_demographics = {d}
     /\ last.n_clusters >= 1 /\ last.n_clusters < Len(last.df))
        => /\ IsLabeled(last.ret)
           /\ Len(last.ret.table[1]) = Len(last.df)
           /\ \A i \in DOMAIN last.ret.table[1] :
                 last.ret.table[1][i].cluster \in 0 .. last.n_clusters - 1

\* C28: get_cluster_summaries on a labeled table returns one summary for
\* each distinct cluster label of the table, the noise label -1 included,
\* every summary has size 1 or more, and the sizes add up to the number of
\* rows.
C28_SummarySizes ==
    last.op = "summaries"
        => LET s == last.ret.summaries
               sizes == [j \in 1 .. 3 |->
                            IF j - 2 \in DOMAIN s THEN s[j - 2].size ELSE 0]
           IN  /\ DOMAIN s = {last.df[i].cluster : i \in DOMAIN last.df}
               /\ DOMAIN s \subseteq SummaryLabels
               /\ \A c \in DOMAIN s : s[c].size >= 1
               /\ SumSeq(sizes) = Len(last.df)

\* A table of 3 rows, one of them noise: three summaries of size 1.
C28_Witness ==
    /\ last.op = "summaries" /\ Len(last.df) = 3
    /\ DOMAIN last.ret.summaries = {-1, 0, 1}
    /\ last.ret.summaries[-1].size = 1

\* C22: visualize_clusters_2d fails gracefully: for a feature matrix with
\* fewer than 2 columns it returns nothing and leaves the engine state
\* unchanged, and for any other matrix of 1 row or more it returns a
\* payload with one 2D coordinate per record and does not raise.
C22_ProjectionGraceful ==
    [][last'.op = "visualize"
          => IF Len(last'.ret.feature_matrix) < 2
             THEN /\ last'.ret.raised = "" /\ last'.ret.viz_data = <<>>
                  /\ pca' = pca
             ELSE /\ last'.ret.raised = "" /\ last'.ret.viz_data # <<>>
                  /\ Len(last'.ret.viz_data[1].xy) = Len(last'.df)]_vars

\* The candidates of a recommend call whose k-means run or scoring raises:
\* k-means finds min(c, distinct rows) clusters and the silhouette score
\* needs 2 of them.
FailingCandidates(call) ==
    LET matrix == _prepare_features(label_encoders, call.df, Selected(call)).matrix[1]
    IN  {c \in 2 .. Min(10, Len(call.df) \div 2) :
            Min(c, Cardinality(DistinctRows(matrix))) < 2}

\* C23: in recommend_optimal_clusters a candidate count whose k-means run
\* or scoring raises is skipped and the other candidates are still scored;
\* if every candidate is skipped the result is the default: 2 recommended,
\* an empty score table.
C23_FailingCandidateSkipped ==
    (/\ last.op = "recommend" /\ Len(last.df) >= 4
     /\ last.ret.raised = "" /\ Selected(last) # {})
        => LET candidates == 2 .. Min(10, Len(last.df) \div 2)
               r == last.ret.result[1]
           IN  /\ DOMAIN r.scores = candidates \ FailingCandidates(last)
               /\ candidates \subseteq FailingCandidates(last)
                     => (r.recommended_clusters = 2 /\ r.scores = <<>>
                         /\ r.method = "default")

\* Six records of one amount, Amount selected: candidates 2 and 3 both fail
\* and the default is returned.
C23_Witness ==
    /\ last.op = "recommend" /\ Len(last.df) = 6
    /\ Selected(last) = {"Amount"}
    /\ FailingCandidates(last) = {2, 3}
    /\ last.ret.raised = ""
    /\ last.ret.result[1].scores = <<>>
    /\ last.ret.result[1].method = "default"

\* The number of records of the table that carry the label.
Occurrences(df, demo) ==
    Cardinality({i \in DOMAIN df : demo \in df[i].target_demographics})

\* C24: with Demographics selected, the binary columns are those of the
\* (up to 10) most frequent labels of the batch: no label with a column
\* occurs in fewer records than a label of the batch without one.
C24_MostFrequentLabels ==
    (last.op = "cluster" /\ last.df # <<>>)
        => LET all_demographics ==
                   UNION {last.df[i].target_demographics : i \in DOMAIN last.df}
               with_column == Range(last.common_demographics)
           IN  /\ with_column \subseteq all_demographics
               /\ Cardinality(with_column) = Min(10, Cardinality(all_demographics))
               /\ \A a \in with_column, b \in all_demographics \ with_column :
                      Occurrences(last.df, a) >= Occurrences(last.df, b)

\* C25: the category encoder is created lazily: a new engine has none, and
\* a cluster() or recommend call whose feature selection does not contain
\* Category leaves the encoder cache exactly as it was.
C25_EncoderLazy ==
    /\ label_encoders = <<>>
    /\ [][(last'.op \in {"cluster", "recommend"} /\ "Category" \notin Selected(last'))
             => label_encoders' = label_encoders]_vars

\* An engine that never fitted an encoder has labeled records of two
\* categories by Amount alone, and still has no encoder.
C25_Witness ==
    /\ last.op = "cluster" /\ Selected(last) = {"Amount"}
    /\ Categories(last.df) = {"Arts", "STEM"}
    /\ IsLabeled(last.ret)
    /\ label_encoders = <<>>

\* C26: when Category is not selected, what cluster() does with a batch
\* does not depend on what the engine clustered before: it builds the
\* feature matrix a new engine builds and can end exactly in the ways the
\* call on a new engine can end.
C26_HistoryFreeWithoutCategory ==
    [][(last'.op = "cluster" /\ "Category" \notin Selected(last'))
          => LET here == _prepare_features(label_encoders, last'.df, Selected(last'))
                 new == _prepare_features(<<>>, last'.df, Selected(last'))
             IN  /\ here.exc = new.exc
                 /\ here.matrix = new.matrix
                 /\ {o.ret : o \in cluster_scholarships(label_encoders, last'.df,
                                last'.method, last'.n_clusters, last'.features)}
                      = {o.ret : o \in cluster_scholarships(<<>>, last'.df,
                                last'.method, last'.n_clusters, last'.features)}]_vars

\* An engine whose encoder knows only Arts has labeled a batch with a STEM
\* record by Amount alone.
C26_Witness ==
    /\ last.op = "cluster" /\ Selected(last) = {"Amount"}
    /\ label_encoders # <<>>
    /\ label_encoders["category"] = <<"Arts">>
    /\ "STEM" \in Categories(last.df)
    /\ IsLabeled(last.ret)

\* C27: the min_samples DBSCAN is constructed with is max(2, floor(n/20))
\* for the n records of the batch, whatever number of them turn out to be
\* noise.
C27_MinSamples ==
    last.op = "dbscan"
        => \E q \in 0 .. last.ret.n_rows :
              /\ 20 * q <= last.ret.n_rows /\ last.ret.n_rows < 20 * (q + 1)
              /\ last.ret.min_samples >= 2 /\ last.ret.min_samples >= q
              /\ last.ret.min_samples \in {2, q}

\* 79 records, 40 of them noise: min_samples is 3, not the 2 that the 39
\* other records would give.
C27_Witness ==
    /\ last.op = "dbscan"
    /\ last.ret.n_rows = 79 /\ last.ret.n_noise_points = 40
    /\ last.ret.min_samples = 3

\* C29: after any sequence of add_application, update_application_status,
\* add_document, set_reminder and import_applications calls, no two tracked
\* applications have the same id.
C29_UniqueIds ==
    \A i, j \in DOMAIN applications :
        i # j => applications[i].id # applications[j].id

\* The completion of every application is in 0 .. 100 and agrees with its
\* status.
CompletionAgrees(apps) ==
    \A i \in DOMAIN apps :
        /\ apps[i].completion_percentage \in 0 .. 100
        /\ apps[i].status \in Range(SubSeq(status_options, 3, 8))
              => apps[i].completion_percentage = 100
        /\ (apps[i].status = "Not Started" /\ apps[i].submitted_documents = <<>>)
              => apps[i].completion_percentage = 0

\* C30: after any sequence of add_application, update_application_status
\* and add_document calls, every completion_percentage is an integer in
\* 0 .. 100 that agrees with the status: 100 from Submitted on, 0 for Not
\* Started without documents; and add_document never lowers the completion
\* of an application that is already Submitted.
C30_CompletionAgreesWithStatus ==
    [][/\ CompletionAgrees(applications')
       /\ \A i \in DOMAIN applications :
             (/\ i \in DOMAIN applications'
              /\ applications[i].status = "Submitted"
              /\ applications'[i].status = "Submitted")
                => applications'[i].completion_percentage
                       >= applications[i].completion_percentage]_vars

====
